---- MODULE Spec2Model ----
(***************************************************************************)
(* Time loop of the Navier-Stokes example (src/main.cpp): implicit Euler   *)
(* with the convective term linearised at the velocity of the previous     *)
(* step.  The model follows main() statement by statement.  Times are      *)
(* exact integers (ticks), boundary values exact rationals <<num, den>>;   *)
(* the rounding of double arithmetic is outside the model.  Fields are     *)
(* abstract values: 0 is the zero field, 1..MaxField are distinct nonzero  *)
(* fields.  The finite element library (assign_dofs, assemble,             *)
(* set_fe_solution) and the sparse solve are modelled by their contracts.  *)
(***************************************************************************)
EXTENDS Integers, Sequences, FiniteSets, TLC

\* ---- bounds of the model ----
MaxTau == 2          \* step sizes 1..MaxTau ticks
MaxFinal == 3        \* final times 1..MaxFinal ticks
MaxStartup == 2      \* ramp-up durations 1..MaxStartup ticks
MaxVel == 1          \* inlet velocities 0..MaxVel
MaxDofs == 2         \* DOF counts per space 1..MaxDofs
MaxField == 1        \* nonzero abstract field values 1..MaxField

\* ---- program constants ----
H == 10
marker_bottom == 1
marker_right == 2
marker_top == 3
marker_left == 4
marker_obstacle == 5

Markers == {marker_bottom, marker_right, marker_top, marker_left, marker_obstacle}
YSamples == 0..H
Spaces == <<"xvel", "yvel", "press">>
SpaceNames == {"xvel", "yvel", "press"}
FieldVals == 0..MaxField

VARIABLES
  TAU, FINAL_TIME, STARTUP_TIME, VEL_INLET,  \* parameters (lines 33-37)
  nv, np,                \* DOFs a velocity / the pressure space holds on the mesh
  pc,                    \* position in main()
  TIME,                  \* global time variable (line 53)
  i, num_time_steps,     \* loop counter and bound (lines 197-198)
  ndofs,                 \* running DOF total (lines 153, 205)
  dofs,                  \* per space: first DOF, count, number of assign_dofs calls
  xvel_essential,        \* essential values of xvel as evaluated by the last assign_dofs
  bcTime,                \* TIME read by xvel_bc_value in the last assign_dofs
  xprev, yprev,          \* velocities from the previous time step (line 81)
  xsln, ysln, psln,      \* solutions of the current step (line 211)
  sys,                   \* assembled system: dimension, rhs, convective block, time
  X,                     \* solution vector returned by the solve (line 229)
  ops,                   \* history: operations of the current iteration, in order
  nAssemble, nSolve,     \* history: calls of assemble / of the solve
  nIter,                 \* history: iterations entered
  failedStep,            \* history: step of the first failure (0: none)
  decodedX, decodedY,    \* history: the velocity fields decoded last
  anchorX, anchorY       \* history: the fields the assembly of this iteration read

vars == <<TAU, FINAL_TIME, STARTUP_TIME, VEL_INLET, nv, np, pc, TIME, i,
          num_time_steps, ndofs, dofs, xvel_essential, bcTime, xprev, yprev,
          xsln, ysln, psln, sys, X, ops, nAssemble, nSolve, nIter, failedStep,
          decodedX, decodedY, anchorX, anchorY>>

params == <<TAU, FINAL_TIME, STARTUP_TIME, VEL_INLET, nv, np>>
hist == <<nAssemble, nSolve, nIter, failedStep, decodedX, decodedY, anchorX, anchorY>>

\* ---- exact rationals <<num, den>>, den > 0 ----
Q(n, d) == <<n, d>>
QInt(n) == <<n, 1>>
QMul(a, b) == <<a[1] * b[1], a[2] * b[2]>>
QDiv(a, b) == IF b[1] < 0 THEN <<(0 - a[1]) * b[2], a[2] * (0 - b[1])>>
              ELSE <<a[1] * b[2], a[2] * b[1]>>
QEq(a, b) == a[1] * b[2] = b[1] * a[2]
QLe(a, b) == a[1] * b[2] <= b[1] * a[2]
QMin(a, b) == IF QLe(a, b) THEN a ELSE b
QZero(a) == a[1] = 0


\* ---- boundary conditions (lines 56-78) ----
BC_NONE == "none"
BC_ESSENTIAL == "essential"

xvel_bc_type(marker) == IF marker = marker_right THEN BC_NONE ELSE BC_ESSENTIAL

yvel_bc_type(marker) == IF marker = marker_right THEN BC_NONE ELSE BC_ESSENTIAL

press_bc_type(marker) == BC_NONE

\* mutant: the ramp factor is not divided by STARTUP_TIME
InletValue_noramp(t, y) ==
  LET half == QDiv(QInt(H), QInt(2))
      val_y == QDiv(QDiv(QMul(QInt(VEL_INLET), QInt(y * (H - y))), half), half)
  IN IF t <= STARTUP_TIME THEN QMul(val_y, QInt(t)) ELSE val_y

\* the inlet value computed as line 73-75 compute it, at time t (the code reads
\* the global TIME)
InletValue(t, y) ==
  LET half == QDiv(QInt(H), QInt(2))
      val_y == QDiv(QDiv(QMul(QInt(VEL_INLET), QInt(y * (H - y))), half), half)
  IN IF t <= STARTUP_TIME
       THEN QDiv(QMul(val_y, QInt(t)), QInt(STARTUP_TIME))
       ELSE val_y

xvel_bc_value(marker, x, y) ==
  IF marker = marker_left THEN InletValue(TIME, y) ELSE QInt(0)

\* ---- solutions ----
\* a field: its abstract value, the step and space it was decoded for, and the
\* DOF numbering of that space when it was produced
ZeroField(step) ==
  [val |-> 0, step |-> step, space |-> "mesh", first |-> 0, count |-> 0, gen |-> 0]

NoField ==
  [val |-> 0, step |-> 0 - 1, space |-> "unset", first |-> 0, count |-> 0, gen |-> 0]

NoX == <<>>

NoSys == [n |-> 0, rhs |-> <<0, 0, 0>>, conv |-> 0, time |-> 0 - 1, step |-> 0]

DofCount(s) == IF s = "press" THEN np ELSE nv

\* Space::assign_dofs(first_dof): numbers the space's DOFs from first_dof on,
\* re-evaluates the essential boundary values, and returns the count
AssignedDofs(s, first_dof) ==
  [dofs EXCEPT ![s] = [first |-> first_dof, count |-> DofCount(s), gen |-> @.gen + 1]]

EssentialValues ==
  [m \in Markers |-> [y \in YSamples |->
     IF xvel_bc_type(m) = BC_ESSENTIAL THEN xvel_bc_value(m, 0, y) ELSE QInt(0)]]

\* Solution::set_fe_solution(space, pss, vec): the window of vec that belongs to
\* the k-th space of the system
FeSolution(k, vec) ==
  [val |-> vec[k], step |-> i, space |-> Spaces[k], first |-> dofs[Spaces[k]].first,
   count |-> dofs[Spaces[k]].count, gen |-> dofs[Spaces[k]].gen]

\* mutant: a constant load is added to the linear form
linear_form_0_load == xprev.val + 1

\* ---- weak forms (lines 83-100) ----
\* the load of the linear forms: the mass term of the previous velocity
linear_form_0 == xprev.val

linear_form_1 == yprev.val

\* the convective term reads both previous velocities
bilinear_form_unsym_0_0_1_1 == <<xprev, yprev>>

Lift == \E m \in Markers : \E y \in YSamples : ~QZero(xvel_essential[m][y])

Nz(b) == IF b THEN 1 ELSE 0

\* LinSystem::assemble: right-hand side per block (is it nonzero), dimension
AssembledRhs ==
  <<Nz(linear_form_0 # 0 \/ Lift), Nz(linear_form_1 # 0 \/ Lift), Nz(Lift)>>

AssembledSys ==
  [n |-> dofs["xvel"].count + dofs["yvel"].count + dofs["press"].count,
   rhs |-> AssembledRhs,
   conv |-> Nz(bilinear_form_unsym_0_0_1_1[1].val # 0
               \/ bilinear_form_unsym_0_0_1_1[2].val # 0),
   time |-> TIME, step |-> i]

Triples == FieldVals \X FieldVals \X FieldVals

\* spsolve(A, rhs) of a regular system: zero for a zero right-hand side, else a
\* nonzero vector whose x-velocity carries the nonzero essential values
SolveResults ==
  IF sys.rhs = <<0, 0, 0>> THEN {<<0, 0, 0>>}
  ELSE {x \in Triples : x # <<0, 0, 0>> /\ (Lift => x[1] # 0)}

\* the matrix can be singular only when the convective block is present: with
\* zero anchors it is the symmetric positive definite velocity block coupled
\* to the pressure by the antisymmetric divergence blocks
MaySolveFail == sys.conv # 0

Log(op) == ops' = Append(ops, op)

MarkFailed == failedStep' = IF failedStep = 0 THEN i ELSE failedStep


\* ---- the program ----
Init ==
  /\ TAU \in 1..MaxTau
  /\ FINAL_TIME \in 1..MaxFinal
  /\ STARTUP_TIME \in 1..MaxStartup
  /\ VEL_INLET \in 0..MaxVel
  /\ nv \in 1..MaxDofs
  /\ np \in 1..MaxDofs
  /\ pc = "init_assign_x"
  /\ TIME = 0
  /\ i = 0
  /\ num_time_steps = 0
  /\ ndofs = 0
  /\ dofs = [s \in SpaceNames |-> [first |-> 0, count |-> 0, gen |-> 0]]
  /\ xvel_essential = [m \in Markers |-> [y \in YSamples |-> QInt(0)]]
  /\ bcTime = 0 - 1
  /\ xprev = NoField /\ yprev = NoField
  /\ xsln = NoField /\ ysln = NoField /\ psln = NoField
  /\ sys = NoSys
  /\ X = NoX
  /\ ops = <<>>
  /\ nAssemble = 0 /\ nSolve = 0 /\ nIter = 0 /\ failedStep = 0
  /\ decodedX = NoField /\ decodedY = NoField
  /\ anchorX = NoField /\ anchorY = NoField

\* ndofs += xvel.assign_dofs(ndofs)   (lines 154 and 206)
AssignX(from, to) ==
  /\ pc = from
  /\ dofs' = AssignedDofs("xvel", ndofs)
  /\ xvel_essential' = EssentialValues
  /\ bcTime' = TIME
  /\ ndofs' = ndofs + DofCount("xvel")
  /\ pc' = to
  /\ Log("assign_x")
  /\ UNCHANGED <<params, TIME, i, num_time_steps, xprev, yprev, xsln, ysln, psln,
                 sys, X, hist>>

\* mutant: yvel is numbered from 0 instead of from the running total
AssignY_fromzero(from, to) ==
  /\ pc = from
  /\ dofs' = AssignedDofs("yvel", 0)
  /\ ndofs' = ndofs + DofCount("yvel")
  /\ pc' = to
  /\ Log("assign_y")
  /\ UNCHANGED <<params, TIME, i, num_time_steps, xvel_essential, bcTime, xprev,
                 yprev, xsln, ysln, psln, sys, X, hist>>

\* ndofs += yvel.assign_dofs(ndofs)   (lines 155 and 207)
AssignY(from, to) ==
  /\ pc = from
  /\ dofs' = AssignedDofs("yvel", ndofs)
  /\ ndofs' = ndofs + DofCount("yvel")
  /\ pc' = to
  /\ Log("assign_y")
  /\ UNCHANGED <<params, TIME, i, num_time_steps, xvel_essential, bcTime, xprev,
                 yprev, xsln, ysln, psln, sys, X, hist>>

\* ndofs += press.assign_dofs(ndofs)  (lines 156 and 208)
AssignP(from, to) ==
  /\ pc = from
  /\ dofs' = AssignedDofs("press", ndofs)
  /\ ndofs' = ndofs + DofCount("press")
  /\ pc' = to
  /\ Log("assign_p")
  /\ UNCHANGED <<params, TIME, i, num_time_steps, xvel_essential, bcTime, xprev,
                 yprev, xsln, ysln, psln, sys, X, hist>>

InitAssignX == AssignX("init_assign_x", "init_assign_y")

InitAssignY == AssignY("init_assign_y", "init_assign_p")

InitAssignP == AssignP("init_assign_p", "set_zero")

\* xprev.set_zero(&mesh); yprev.set_zero(&mesh)   (lines 159-160)
SetZeroPrev ==
  /\ pc = "set_zero"
  /\ xprev' = ZeroField(0)
  /\ yprev' = ZeroField(0)
  /\ decodedX' = ZeroField(0)
  /\ decodedY' = ZeroField(0)
  /\ pc' = "loop_init"
  /\ Log("set_zero")
  /\ UNCHANGED <<params, TIME, i, num_time_steps, ndofs, dofs, xvel_essential,
                 bcTime, xsln, ysln, psln, sys, X, nAssemble, nSolve, nIter,
                 failedStep, anchorX, anchorY>>

\* int num_time_steps = FINAL_TIME / TAU; i = 1   (lines 197-198)
LoopInit ==
  /\ pc = "loop_init"
  /\ num_time_steps' = FINAL_TIME \div TAU
  /\ i' = 1
  /\ pc' = "loop_test"
  /\ UNCHANGED <<params, TIME, ndofs, dofs, xvel_essential, bcTime, xprev, yprev,
                 xsln, ysln, psln, sys, X, ops, hist>>

\* mutant: the loop test is off by one (i < num_time_steps)
LoopTest_strict ==
  /\ pc = "loop_test"
  /\ pc' = IF i < num_time_steps THEN "advance" ELSE "done"
  /\ UNCHANGED <<params, TIME, i, num_time_steps, ndofs, dofs, xvel_essential,
                 bcTime, xprev, yprev, xsln, ysln, psln, sys, X, ops, hist>>

\* i <= num_time_steps   (line 198)
LoopTest ==
  /\ pc = "loop_test"
  /\ pc' = IF i <= num_time_steps THEN "advance" ELSE "done"
  /\ UNCHANGED <<params, TIME, i, num_time_steps, ndofs, dofs, xvel_essential,
                 bcTime, xprev, yprev, xsln, ysln, psln, sys, X, ops, hist>>

\* mutant: TIME = TAU instead of TIME += TAU
AdvanceTime_assign ==
  /\ pc = "advance"
  /\ TIME' = TAU
  /\ nIter' = nIter + 1
  /\ ops' = <<"advance">>
  /\ anchorX' = NoField /\ anchorY' = NoField
  /\ pc' = "reset_ndofs"
  /\ UNCHANGED <<params, i, num_time_steps, ndofs, dofs, xvel_essential, bcTime,
                 xprev, yprev, xsln, ysln, psln, sys, X, nAssemble, nSolve,
                 failedStep, decodedX, decodedY>>

\* TIME += TAU   (line 200)
AdvanceTime ==
  /\ pc = "advance"
  /\ TIME' = TIME + TAU
  /\ nIter' = nIter + 1
  /\ ops' = <<"advance">>
  /\ anchorX' = NoField /\ anchorY' = NoField
  /\ pc' = "reset_ndofs"
  /\ UNCHANGED <<params, i, num_time_steps, ndofs, dofs, xvel_essential, bcTime,
                 xprev, yprev, xsln, ysln, psln, sys, X, nAssemble, nSolve,
                 failedStep, decodedX, decodedY>>

\* mutant: ndofs is not reset before the reassignment
ResetNdofs_missing ==
  /\ pc = "reset_ndofs"
  /\ pc' = "assign_x"
  /\ UNCHANGED <<params, TIME, i, num_time_steps, ndofs, dofs, xvel_essential,
                 bcTime, xprev, yprev, xsln, ysln, psln, sys, X, ops, hist>>

\* ndofs = 0   (line 205)
ResetNdofs ==
  /\ pc = "reset_ndofs"
  /\ ndofs' = 0
  /\ pc' = "assign_x"
  /\ UNCHANGED <<params, TIME, i, num_time_steps, dofs, xvel_essential, bcTime,
                 xprev, yprev, xsln, ysln, psln, sys, X, ops, hist>>

LoopAssignX == AssignX("assign_x", "assign_y")

LoopAssignY == AssignY("assign_y", "assign_p")

LoopAssignP == AssignP("assign_p", "declare")

\* mutant: the time is advanced after the DOF reassignment, before assembly
DeclareSolutions_advancing ==
  /\ pc = "declare"
  /\ TIME' = TIME + TAU
  /\ xsln' = NoField /\ ysln' = NoField
  /\ psln' = ZeroField(i)
  /\ pc' = "assemble"
  /\ Log("zero_p")
  /\ UNCHANGED <<params, i, num_time_steps, ndofs, dofs, xvel_essential,
                 bcTime, xprev, yprev, sys, X, hist>>

\* Solution xsln, ysln, psln; psln.set_zero(&mesh)   (lines 211-212)
DeclareSolutions ==
  /\ pc = "declare"
  /\ xsln' = NoField /\ ysln' = NoField
  /\ psln' = ZeroField(i)
  /\ pc' = "assemble"
  /\ Log("zero_p")
  /\ UNCHANGED <<params, TIME, i, num_time_steps, ndofs, dofs, xvel_essential,
                 bcTime, xprev, yprev, sys, X, hist>>


\* sys.assemble()   (line 213): reads xprev, yprev through the registered forms
Assemble ==
  /\ pc = "assemble"
  /\ sys' = AssembledSys
  /\ anchorX' = bilinear_form_unsym_0_0_1_1[1]
  /\ anchorY' = bilinear_form_unsym_0_0_1_1[2]
  /\ nAssemble' = nAssemble + 1
  /\ pc' = "solve"
  /\ Log("assemble")
  /\ UNCHANGED <<params, TIME, i, num_time_steps, ndofs, dofs, xvel_essential,
                 bcTime, xprev, yprev, xsln, ysln, psln, X, nSolve, nIter,
                 failedStep, decodedX, decodedY>>

\* sys.assemble() fails: main() has no handler, the library ends the process
AssembleFail ==
  /\ pc = "assemble"
  /\ nAssemble' = nAssemble + 1
  /\ MarkFailed
  /\ pc' = "aborted"
  /\ Log("assemble")
  /\ UNCHANGED <<params, TIME, i, num_time_steps, ndofs, dofs, xvel_essential,
                 bcTime, xprev, yprev, xsln, ysln, psln, sys, X, nSolve, nIter,
                 decodedX, decodedY, anchorX, anchorY>>

\* get_matrix, get_rhs, cmd("x = spsolve(A, rhs)"), numpy2c   (lines 218-229)
Solve ==
  /\ pc = "solve"
  /\ \E x \in SolveResults : X' = x
  /\ nSolve' = nSolve + 1
  /\ pc' = "decode_x"
  /\ Log("solve")
  /\ UNCHANGED <<params, TIME, i, num_time_steps, ndofs, dofs, xvel_essential,
                 bcTime, xprev, yprev, xsln, ysln, psln, sys, nAssemble, nIter,
                 failedStep, decodedX, decodedY, anchorX, anchorY>>

\* the solve fails silently: cmd() returns nothing, main() checks nothing, and
\* whatever the symbol x holds is decoded
SolveFailGarbage ==
  /\ pc = "solve"
  /\ MaySolveFail
  /\ \E x \in Triples : X' = x
  /\ nSolve' = nSolve + 1
  /\ MarkFailed
  /\ pc' = "decode_x"
  /\ Log("solve")
  /\ UNCHANGED <<params, TIME, i, num_time_steps, ndofs, dofs, xvel_essential,
                 bcTime, xprev, yprev, xsln, ysln, psln, sys, nAssemble, nIter,
                 decodedX, decodedY, anchorX, anchorY>>

\* the solve fails by ending the process (nothing in main() catches)
SolveFailAbort ==
  /\ pc = "solve"
  /\ MaySolveFail
  /\ nSolve' = nSolve + 1
  /\ MarkFailed
  /\ pc' = "aborted"
  /\ Log("solve")
  /\ UNCHANGED <<params, TIME, i, num_time_steps, ndofs, dofs, xvel_essential,
                 bcTime, xprev, yprev, xsln, ysln, psln, sys, X, nAssemble, nIter,
                 decodedX, decodedY, anchorX, anchorY>>

\* xsln.set_fe_solution(sys.get_space(0), sys.get_pss(0), X)   (line 230)
DecodeX ==
  /\ pc = "decode_x"
  /\ xsln' = FeSolution(1, X)
  /\ decodedX' = FeSolution(1, X)
  /\ pc' = "decode_y"
  /\ Log("decode_x")
  /\ UNCHANGED <<params, TIME, i, num_time_steps, ndofs, dofs, xvel_essential,
                 bcTime, xprev, yprev, ysln, psln, sys, X, nAssemble, nSolve,
                 nIter, failedStep, decodedY, anchorX, anchorY>>

\* mutant: the solutions are exported before psln is decoded
DecodeY_export ==
  /\ pc = "decode_y"
  /\ ysln' = FeSolution(2, X)
  /\ decodedY' = FeSolution(2, X)
  /\ pc' = "export"
  /\ Log("decode_y")
  /\ UNCHANGED <<params, TIME, i, num_time_steps, ndofs, dofs, xvel_essential,
                 bcTime, xprev, yprev, xsln, psln, sys, X, nAssemble, nSolve,
                 nIter, failedStep, decodedX, anchorX, anchorY>>

\* ysln.set_fe_solution(sys.get_space(1), sys.get_pss(1), X)   (line 231)
DecodeY ==
  /\ pc = "decode_y"
  /\ ysln' = FeSolution(2, X)
  /\ decodedY' = FeSolution(2, X)
  /\ pc' = "decode_p"
  /\ Log("decode_y")
  /\ UNCHANGED <<params, TIME, i, num_time_steps, ndofs, dofs, xvel_essential,
                 bcTime, xprev, yprev, xsln, psln, sys, X, nAssemble, nSolve,
                 nIter, failedStep, decodedX, anchorX, anchorY>>

\* psln.set_fe_solution(sys.get_space(2), sys.get_pss(2), X)   (line 232)
DecodeP ==
  /\ pc = "decode_p"
  /\ psln' = FeSolution(3, X)
  /\ pc' = "export"
  /\ Log("decode_p")
  /\ UNCHANGED <<params, TIME, i, num_time_steps, ndofs, dofs, xvel_essential,
                 bcTime, xprev, yprev, xsln, ysln, sys, X, hist>>

\* insert_object("xsln" / "ysln" / "psln", ...)   (lines 233-235)
ExportSolutions ==
  /\ pc = "export"
  /\ pc' = "plot"
  /\ Log("export")
  /\ UNCHANGED <<params, TIME, i, num_time_steps, ndofs, dofs, xvel_essential,
                 bcTime, xprev, yprev, xsln, ysln, psln, sys, X, hist>>

\* Linearizer / Vectorizer process_solution and plots   (lines 236-254)
PlotSolutions ==
  /\ pc = "plot"
  /\ pc' = "swap_x"
  /\ Log("plot")
  /\ UNCHANGED <<params, TIME, i, num_time_steps, ndofs, dofs, xvel_essential,
                 bcTime, xprev, yprev, xsln, ysln, psln, sys, X, hist>>

\* xprev = xsln   (line 258)
SwapX ==
  /\ pc = "swap_x"
  /\ xprev' = xsln
  /\ pc' = "swap_y"
  /\ Log("swap_x")
  /\ UNCHANGED <<params, TIME, i, num_time_steps, ndofs, dofs, xvel_essential,
                 bcTime, yprev, xsln, ysln, psln, sys, X, hist>>

\* mutant: yprev = xsln
SwapY_wrong ==
  /\ pc = "swap_y"
  /\ yprev' = xsln
  /\ pc' = "next_iter"
  /\ Log("swap_y")
  /\ UNCHANGED <<params, TIME, i, num_time_steps, ndofs, dofs, xvel_essential,
                 bcTime, xprev, xsln, ysln, psln, sys, X, hist>>

\* yprev = ysln   (line 259)
SwapY ==
  /\ pc = "swap_y"
  /\ yprev' = ysln
  /\ pc' = "next_iter"
  /\ Log("swap_y")
  /\ UNCHANGED <<params, TIME, i, num_time_steps, ndofs, dofs, xvel_essential,
                 bcTime, xprev, xsln, ysln, psln, sys, X, hist>>

\* end of the loop body: xsln, ysln, psln go out of scope; i++   (lines 260, 198)
NextIteration ==
  /\ pc = "next_iter"
  /\ i' = i + 1
  /\ xsln' = NoField /\ ysln' = NoField /\ psln' = NoField
  /\ X' = NoX
  /\ pc' = "loop_test"
  /\ UNCHANGED <<params, TIME, num_time_steps, ndofs, dofs, xvel_essential,
                 bcTime, xprev, yprev, sys, ops, hist>>

Next ==
  \/ InitAssignX \/ InitAssignY \/ InitAssignP \/ SetZeroPrev
  \/ LoopInit \/ LoopTest \/ AdvanceTime \/ ResetNdofs
  \/ LoopAssignX \/ LoopAssignY \/ LoopAssignP \/ DeclareSolutions
  \/ Assemble \/ AssembleFail
  \/ Solve \/ SolveFailGarbage \/ SolveFailAbort
  \/ DecodeX \/ DecodeY \/ DecodeP
  \/ ExportSolutions \/ PlotSolutions
  \/ SwapX \/ SwapY \/ NextIteration

Spec == Init /\ [][Next]_vars


\* ---- helpers of the properties ----
Ceil(a, b) == (a + b - 1) \div b

Has(op) == \E k \in 1..Len(ops) : ops[k] = op

Count(op) == Cardinality({k \in 1..Len(ops) : ops[k] = op})

Before(a, b) == \E j \in 1..Len(ops) : \E k \in 1..Len(ops) :
                   j < k /\ ops[j] = a /\ ops[k] = b

IsPrefix(s, t) == Len(s) <= Len(t) /\ s = SubSeq(t, 1, Len(s))

Range(sp) == dofs[sp].first .. (dofs[sp].first + dofs[sp].count - 1)

SetupPcs == {"init_assign_x", "init_assign_y", "init_assign_p", "set_zero",
             "loop_init"}

AssignPcs == {"init_assign_x", "init_assign_y", "init_assign_p",
              "assign_x", "assign_y", "assign_p"}

\* positions inside the body of iteration i, after TIME += TAU
BodyPcs == {"reset_ndofs", "assign_x", "assign_y", "assign_p", "declare",
            "assemble", "solve", "decode_x", "decode_y", "decode_p", "export",
            "plot", "swap_x", "swap_y", "next_iter", "aborted"}

\* C1 (as stated): a run in which no step fails executes exactly
\* ceil(FINAL_TIME / TAU) iterations, each with one assemble and one solve.
C1_CeilIterations ==
  (pc = "done" /\ failedStep = 0) =>
     /\ nIter = Ceil(FINAL_TIME, TAU)
     /\ nAssemble = nIter
     /\ nSolve = nIter

\* C1 (amended): a run in which no step fails executes exactly
\* floor(FINAL_TIME / TAU) iterations (the integer truncation of line 197),
\* and assemble and the solve are each invoked exactly once in each of them.
C1_FloorIterations ==
  /\ (pc = "done" /\ failedStep = 0) =>
        /\ nIter = FINAL_TIME \div TAU
        /\ nAssemble = nIter
        /\ nSolve = nIter
  /\ (pc = "next_iter" /\ failedStep = 0) =>
        /\ Count("assemble") = 1 /\ Count("solve") = 1
        /\ nAssemble = i /\ nSolve = i /\ nIter = i

C1_Witness ==
  pc = "done" /\ failedStep = 0 /\ nIter >= 1 /\ FINAL_TIME % TAU # 0

\* C2: a failure of assembly or of the solve at step k stops the loop at step
\* k: no later step runs, the failed step's result never becomes xprev/yprev,
\* and the time is that of step k-1.
C2_FailureStops ==
  failedStep # 0 =>
     /\ pc = "aborted"
     /\ i = failedStep
     /\ TIME = (failedStep - 1) * TAU
     /\ xprev.step # failedStep
     /\ yprev.step # failedStep

\* C3: after every DOF assignment pass the ranges of xvel, yvel and press are
\* contiguous from 0 in that order and pairwise disjoint, ndofs is the sum of
\* the three counts, and it is the dimension of the assembled system.
C3_DofRanges ==
  pc \notin AssignPcs =>
     /\ dofs["xvel"].first = 0
     /\ dofs["yvel"].first = dofs["xvel"].first + dofs["xvel"].count
     /\ dofs["press"].first = dofs["yvel"].first + dofs["yvel"].count
     /\ Range("xvel") \cap Range("yvel") = {}
     /\ Range("xvel") \cap Range("press") = {}
     /\ Range("yvel") \cap Range("press") = {}
     /\ Range("xvel") \cup Range("yvel") \cup Range("press") = 0..(ndofs - 1)
     /\ ndofs = dofs["xvel"].count + dofs["yvel"].count + dofs["press"].count
     /\ (sys.step >= 1 => sys.n = ndofs)

C3_Witness ==
  pc = "solve" /\ i = 2 /\ sys.step = 2 /\ nv = 2 /\ np = 1 /\ sys.n = 5
  /\ dofs["press"].first = 4

\* the steady inlet profile and the ramp as the specification states them
Profile(y) == Q(VEL_INLET * y * (H - y) * 4, H * H)

ClaimedValue(m, y, t) ==
  IF m = marker_left
    THEN QMul(Profile(y), QMin(QInt(1), Q(t, STARTUP_TIME)))
    ELSE QInt(0)

\* TIME changes only at line 200 and the stored essential values only inside
\* xvel.assign_dofs, so the values are compared where either has just been set
C4_Points == {"init_assign_x", "init_assign_y", "reset_ndofs", "assign_y", "done"}

C5_TimeState ==
  /\ (pc \in SetupPcs => TIME = 0)
  /\ (pc \in BodyPcs => TIME = i * TAU)
  /\ (pc \in {"loop_test", "advance"} => TIME = (i - 1) * TAU)
  /\ (pc = "done" => /\ FINAL_TIME - TIME < TAU
                     /\ TIME - FINAL_TIME < TAU)

C5_TimeStep ==
  /\ TIME' >= TIME
  /\ TIME' # TIME => (pc = "advance" /\ TIME' = TIME + TAU)

\* C5: TIME starts at 0, is written only by the increment TIME += TAU at the
\* start of an iteration, is non-decreasing, equals i * TAU throughout
\* iteration i, and when the loop finishes it differs from FINAL_TIME by less
\* than TAU.
C5_Time == [](C5_TimeState) /\ [][C5_TimeStep]_vars

C5_Witness ==
  pc = "done" /\ i = 2 /\ TIME = TAU /\ TIME # FINAL_TIME /\ nIter = 1

\* C6: with zero initial velocities and zero essential values (VEL_INLET = 0)
\* every assembled right-hand side is zero and every decoded velocity is
\* zero, so xprev and yprev are zero at the start of every step.
C6_ZeroFixedPoint ==
  VEL_INLET = 0 =>
     /\ xprev.val = 0 /\ yprev.val = 0
     /\ xsln.val = 0 /\ ysln.val = 0
     /\ decodedX.val = 0 /\ decodedY.val = 0
     /\ sys.rhs = <<0, 0, 0>>
     /\ (X # NoX => X = <<0, 0, 0>>)

C6_Witness ==
  /\ VEL_INLET = 0 /\ i = 2 /\ pc = "decode_x" /\ sys.step = 2
  /\ xprev.space = "xvel" /\ xprev.step = 1 /\ xprev.val = 0
  /\ X = <<0, 0, 0>>

\* the operations of an iteration the order is stated for
C7_Order == <<"advance", "assign_x", "assign_y", "assign_p", "assemble", "solve",
              "decode_x", "decode_y", "decode_p", "swap_x", "swap_y">>

C7_Op(o) == \E k \in 1..Len(C7_Order) : C7_Order[k] = o

\* C7: in every iteration the operations occur once each in the order advance
\* time, reassign DOFs (re-evaluating the essential values), assemble, solve,
\* decode, replace previous by current; the time the boundary-value function
\* read is the one current during assembly: the advanced time i * TAU.
C7_StepOrder ==
  pc \in BodyPcs =>
     /\ IsPrefix(SelectSeq(ops, C7_Op), C7_Order)
     /\ (pc = "next_iter" => SelectSeq(ops, C7_Op) = C7_Order)
     /\ (Has("assign_x") => bcTime = i * TAU /\ bcTime = TIME)
     /\ (Has("assemble") /\ pc # "aborted") =>
           /\ sys.step = i
           /\ sys.time = bcTime
           /\ sys.time = i * TAU

C7_Witness ==
  pc = "next_iter" /\ i = 2 /\ sys.time = 2 * TAU /\ bcTime = 2 * TAU
  /\ STARTUP_TIME = 2 /\ VEL_INLET = 1

\* what the assembly read, and the steps that may write xprev, yprev
C8_Anchor ==
  (pc \in {"solve", "decode_x"}) =>
     /\ anchorX = decodedX /\ anchorY = decodedY
     /\ anchorX.step = i - 1 /\ anchorY.step = i - 1
     /\ (i = 1 => anchorX = ZeroField(0) /\ anchorY = ZeroField(0))
     /\ (i > 1 => anchorX.space = "xvel" /\ anchorY.space = "yvel")

C8_Writes ==
  /\ (pc \in {"assemble", "solve", "decode_x", "decode_y", "decode_p"}) =>
        (xprev' = xprev /\ yprev' = yprev)
  /\ (pc \in BodyPcs /\ xprev' # xprev) =>
        (pc = "swap_x" /\ xprev' = xsln /\ Has("decode_p"))
  /\ (pc \in BodyPcs /\ yprev' # yprev) =>
        (pc = "swap_y" /\ yprev' = ysln /\ Has("decode_p"))

\* C8: the xprev/yprev the assembly of step n reads are the x- and y-velocity
\* decoded in step n-1 (the zero fields for n = 1); they are not written from
\* the start of the assembly to the end of the decode: the only write in a
\* step is the assignment from the current fields after the decode.
C8_FrozenAnchor == [](C8_Anchor) /\ [][C8_Writes]_vars

C8_Witness ==
  /\ pc = "decode_x" /\ i = 2 /\ anchorX.step = 1 /\ anchorX.val # 0
  /\ anchorY.step = 1 /\ anchorY.space = "yvel" /\ xprev = anchorX

\* C9 (as stated): between the decode that produces a velocity field and a
\* later assembly that reads it as xprev/yprev, assign_dofs is not invoked on
\* the field's space.
C9_NoReassign ==
  /\ (anchorX.space = "xvel" => dofs["xvel"].gen = anchorX.gen)
  /\ (anchorY.space = "yvel" => dofs["yvel"].gen = anchorY.gen)

\* C9 (amended): assign_dofs is invoked on the field's space exactly once
\* between the decode of step n and the assembly of step n+1 that reads the
\* field, and it reproduces the numbering (first DOF and count) the field was
\* produced under: no field is read against a space whose numbering differs.
C9_SameNumbering ==
  /\ (anchorX.space = "xvel" =>
        /\ dofs["xvel"].gen = anchorX.gen + 1
        /\ dofs["xvel"].first = anchorX.first
        /\ dofs["xvel"].count = anchorX.count)
  /\ (anchorY.space = "yvel" =>
        /\ dofs["yvel"].gen = anchorY.gen + 1
        /\ dofs["yvel"].first = anchorY.first
        /\ dofs["yvel"].count = anchorY.count)

C9_Witness ==
  /\ pc = "solve" /\ i = 2 /\ anchorX.space = "xvel" /\ anchorY.space = "yvel"
  /\ dofs["yvel"].gen = anchorY.gen + 1 /\ dofs["yvel"].first = 2

\* C10: the solutions of a step are handed to the export only after all three
\* are decoded and before the first of the two previous-field assignments: no
\* export or plot happens between xprev = xsln and yprev = ysln.
C10_ExportWindow ==
  pc \in BodyPcs =>
     /\ (Has("export") \/ pc = "export" \/ pc = "plot" \/ Has("plot")) =>
           /\ Has("decode_x") /\ Has("decode_y") /\ Has("decode_p")
           /\ xsln.step = i /\ xsln.space = "xvel"
           /\ ysln.step = i /\ ysln.space = "yvel"
           /\ psln.step = i /\ psln.space = "press"
     /\ (pc \in {"export", "plot"}) =>
           (~Has("swap_x") /\ ~Has("swap_y") /\ xprev.step # i /\ yprev.step # i)
     /\ Has("swap_x") =>
           /\ Before("export", "swap_x") /\ Before("plot", "swap_x")
           /\ Count("export") = 1 /\ Count("plot") = 1
     /\ (Has("swap_x") /\ ~Has("swap_y")) => pc = "swap_y"

C10_Witness ==
  /\ pc = "swap_y" /\ i = 2 /\ Has("export") /\ xprev.step = 2 /\ yprev.step = 1
  /\ psln.space = "press"

====
